---------------------------- MODULE Spec2Model ----------------------------
(***************************************************************************)
(* Model of SCRIPTS_2020/Bup/Decode_videos.py: the barcode-tag decoder.    *)
(*                                                                         *)
(* run_decoder is a single-threaded frame loop.  The model follows its     *)
(* control flow (pc) through cap.read, the input validation of             *)
(* get_grayscale / get_threshold / get_contours, the per-contour filter    *)
(* chain, order_points, the correlation match, the pose computation, the   *)
(* CSV write, the video write and the loop exit tests.                     *)
(*                                                                         *)
(* Pixel data is not modelled.  A frame is what the OpenCV calls make of   *)
(* it: its array shape and dtype, the set of levels of its thresholded     *)
(* image, and its contours; a contour carries its vertices, the polygon    *)
(* cv2.approxPolyDP returns for it and the grey patch that the perspective *)
(* warp + resize read through the ordered corners.                         *)
(*                                                                         *)
(* Units: pixel coordinates are integers; areas are kept doubled (area2),  *)
(* lengths in 1/100 pixel, centroids and edge midpoints in 1/4 pixel,      *)
(* angles in whole degrees, correlations as the pair <<num, den>> standing *)
(* for num / sqrt(den).                                                    *)
(***************************************************************************)
EXTENDS Integers, Sequences, FiniteSets, TLC

VARIABLES
    pc,          \* position of run_decoder
    opened,      \* cap.isOpened()
    ret,         \* first value of the latest cap.read()
    image,       \* second value of the latest cap.read()
    pos,         \* cap.get(CAP_PROP_POS_FRAMES)
    frame_count, \* cap.get(CAP_PROP_FRAME_COUNT)
    n_tags,      \* tags accepted in the current frame
    contours,    \* get_contours(thresh) of the current frame
    ci,          \* index of the next contour of the for loop
    savefile,    \* data lines written to the CSV file (header excluded)
    out,         \* frames written to the VideoWriter
    cand,        \* what the filter chain did with the latest contour
    fn,          \* function under test in the function specifications
    arg,         \* its argument
    res          \* its result

vars == <<pc, opened, ret, image, pos, frame_count, n_tags, contours, ci,
          savefile, out, cand, fn, arg, res>>

-----------------------------------------------------------------------------
(* Small arithmetic                                                        *)

\* s[1] + ... + s[n]
RECURSIVE SumTo(_, _)
SumTo(s, n) == IF n = 0 THEN 0 ELSE s[n] + SumTo(s, n - 1)

SumSeq(s) == SumTo(s, Len(s))

\* the sequence <<F(1), ..., F(n)>>, built element by element
RECURSIVE Build(_, _)
Build(F(_), n) == IF n = 0 THEN <<>> ELSE Append(Build(F, n - 1), F(n))

\* least r >= lo with r * r >= n, searched in lo..hi
RECURSIVE CeilSqrtIn(_, _, _)
CeilSqrtIn(n, lo, hi) ==
    IF lo >= hi THEN lo
    ELSE LET mid == (lo + hi) \div 2
         IN  IF mid * mid >= n THEN CeilSqrtIn(n, lo, mid)
                               ELSE CeilSqrtIn(n, mid + 1, hi)

CeilSqrt(n) == CeilSqrtIn(n, 0, 46340)

-----------------------------------------------------------------------------
(* numpy.argsort on a short key vector: a stable ascending sort, returned  *)
(* as the sequence of indices.                                             *)

\* the indices that sort before index k: smaller keys, and equal keys at
\* earlier positions
Before(key, k) ==
    {j \in 1..Len(key) : key[j] < key[k] \/ (key[j] = key[k] /\ j < k)}

argsort(key) ==
    [i \in 1..Len(key) |->
        CHOOSE k \in 1..Len(key) : Cardinality(Before(key, k)) = i - 1]

\* s[::-1]
Reverse(s) == [i \in 1..Len(s) |-> s[Len(s) + 1 - i]]

\* s[idx, :], the rows of s in the order idx, idx worked out once
Take(s, idx) ==
    CHOOSE taken \in {[i \in 1..Len(order) |-> rows[order[i]]] :
                           rows \in {s}, order \in {idx}} : TRUE

\* scipy cdist(tl, right, "euclidean"), squared: the order of the distances
\* is the order of their squares
SqDist(p, q) == (p[1] - q[1]) * (p[1] - q[1]) + (p[2] - q[2]) * (p[2] - q[2])

order_points(pts) ==
    LET sorted_ == Take(pts, argsort([i \in 1..4 |-> pts[i][1]]))
        left0   == SubSeq(sorted_, 1, 2)
        right   == SubSeq(sorted_, 3, 4)
        left    == Take(left0, argsort([i \in 1..2 |-> left0[i][2]]))
        tl      == left[1]
        bl      == left[2]
        D       == [i \in 1..2 |-> SqDist(tl, right[i])]
        far     == Take(right, Reverse(argsort(D)))
        br      == far[1]
        tr      == far[2]
    IN  <<tl, tr, br, bl>>

-----------------------------------------------------------------------------
(* OpenCV geometry on integer vertex sequences                             *)

Prev(s, i) == IF i = 1 THEN s[Len(s)] ELSE s[i - 1]

Next_(s, i) == IF i = Len(s) THEN s[1] ELSE s[i + 1]

\* cv2.contourArea(c, True), doubled: sum of prev.x * p.y - prev.y * p.x
contourArea2(c) ==
    SumSeq([i \in 1..Len(c) |-> Prev(c, i)[1] * c[i][2] - Prev(c, i)[2] * c[i][1]])

\* length of one segment in 1/100 pixel
SegLen100(p, q) == CeilSqrt(10000 * SqDist(p, q))

\* cv2.arcLength(c, True) in 1/100 pixel
arcLength100(c) ==
    SumSeq([i \in 1..Len(c) |-> SegLen100(Prev(c, i), c[i])])

\* z component of (b - a) x (c - b)
Cross(a, b, c) ==
    (b[1] - a[1]) * (c[2] - b[2]) - (b[2] - a[2]) * (c[1] - b[1])

\* cv2.isContourConvex: every turn has the same strict orientation
isContourConvex(c) ==
    \/ \A i \in 1..Len(c) : Cross(Prev(c, i), c[i], Next_(c, i)) > 0
    \/ \A i \in 1..Len(c) : Cross(Prev(c, i), c[i], Next_(c, i)) < 0

-----------------------------------------------------------------------------
(* The pattern library (run_decoder, lines 308-326)                        *)

\* the side of a tag, (5, 5) at line 321; the library file is not part of
\* the repository, and the tags here are 2 x 2 so that every correlation is
\* worked out exactly
TagSide == 2

\* an n x n grid of cells inside one ring of cells of value b, flattened
\* row by row
Ring(cells, n, b) ==
    Build(LAMBDA k :
              LET r == (k - 1) \div (n + 2)
                  c == (k - 1) % (n + 2)
              IN  IF r = 0 \/ r = n + 1 \/ c = 0 \/ c = n + 1
                  THEN b
                  ELSE cells[(r - 1) * n + c],
          (n + 2) * (n + 2))

\* add_border(tag, (n, n), white_width = 1, black_width = 0): the tag inside
\* one ring of white (1) cells; the black ring has width 0
add_border(tag, n) == Ring(tag, n, 1)

\* tags.master_list: every tag in its four 90-degree rotations, four
\* consecutive entries per tag (TagDictionary of the pinpoint package)
master_list ==
    << <<1, 0, 0, 0>>, <<0, 1, 0, 0>>, <<0, 0, 0, 1>>, <<0, 0, 1, 0>>,
       <<1, 1, 0, 0>>, <<0, 1, 0, 1>>, <<0, 0, 1, 1>>, <<1, 0, 1, 0>> >>

\* tags.id_list: one identifier per entry of master_list
IDs == <<42, 42, 42, 42, 7, 7, 7, 7>>

barcode_side == TagSide + 2

flat_len == barcode_side * barcode_side

\* the bordered tag is already barcode_size, so cv2.resize leaves it as it is
barcodes ==
    Build(LAMBDA j : add_border(master_list[j], TagSide), Len(master_list))

-----------------------------------------------------------------------------
(* corr2_coeff and the match                                               *)

NaN == <<0, 0>>

IsNaN(c) == c[2] = 0

Dot(a, b) == SumSeq([i \in 1..Len(a) |-> a[i] * b[i]])

\* n * sum of squared deviations from the row mean
SumSq(a) == Len(a) * Dot(a, a) - SumSeq(a) * SumSeq(a)

\* Pearson correlation of rows a and b, (a - mean a).(b - mean b) over
\* sqrt(ssA * ssB), as <<num, den>> with both scaled by Len(a):
\* 0 / 0 is NaN
Pearson(a, b) ==
    LET num == Len(a) * Dot(a, b) - SumSeq(a) * SumSeq(b)
        den == SumSq(a) * SumSq(b)
    IN  IF den = 0 THEN NaN ELSE <<num, den>>

\* corr2_coeff(A, B) for a one-row B: one coefficient per row of A
corr2_coeff(A, B) == Build(LAMBDA j : Pearson(A[j], B), Len(A))

\* sign(num) * num^2 / den orders the coefficients as num / sqrt(den) does
SqNum(c) == IF c[1] < 0 THEN -(c[1] * c[1]) ELSE c[1] * c[1]

CorrLess(c, d) == SqNum(c) * d[2] < SqNum(d) * c[2]

\* np.max: NaN when any entry is NaN
np_max(corr) ==
    IF \E j \in 1..Len(corr) : IsNaN(corr[j])
    THEN NaN
    ELSE LET j == CHOOSE k \in 1..Len(corr) :
                      \A m \in 1..Len(corr) : ~CorrLess(corr[k], corr[m])
         IN  corr[j]

\* variant: the last of the largest entries
np_argmax_last(corr) ==
    IF \E j \in 1..Len(corr) : IsNaN(corr[j])
    THEN (CHOOSE k \in 1..Len(corr) :
              /\ IsNaN(corr[k])
              /\ \A m \in 1..(k - 1) : ~IsNaN(corr[m])) - 1
    ELSE (CHOOSE k \in 1..Len(corr) :
              /\ \A m \in 1..Len(corr) : ~CorrLess(corr[k], corr[m])
              /\ \A m \in (k + 1)..Len(corr) : CorrLess(corr[m], corr[k])) - 1

\* np.argmax, 0-based: the first NaN, else the first entry no other exceeds
np_argmax(corr) ==
    IF \E j \in 1..Len(corr) : IsNaN(corr[j])
    THEN (CHOOSE k \in 1..Len(corr) :
              /\ IsNaN(corr[k])
              /\ \A m \in 1..(k - 1) : ~IsNaN(corr[m])) - 1
    ELSE (CHOOSE k \in 1..Len(corr) :
              /\ \A m \in 1..Len(corr) : ~CorrLess(corr[k], corr[m])
              /\ \A m \in 1..(k - 1) : CorrLess(corr[m], corr[k])) - 1

\* variant: the threshold is 0.5
AboveHalf(c) == ~IsNaN(c) /\ c[1] > 0 /\ 4 * c[1] * c[1] > c[2]

\* best_value > 0.8: num / sqrt(den) > 4/5; false for NaN
AboveThreshold(c) == ~IsNaN(c) /\ c[1] > 0 /\ 25 * c[1] * c[1] > 16 * c[2]

\* lines 457-471: the correlation of the flattened patch with every
\* barcode, its maximum and, when that exceeds 0.8, the entry it belongs to
MatchOf(correlation) ==
    LET best_value == np_max(correlation)
    IN  IF AboveThreshold(best_value)
        THEN LET best_index == np_argmax(correlation)
             IN  [correlation |-> correlation,
                  best_value  |-> best_value,
                  accepted    |-> TRUE,
                  best_index  |-> best_index,
                  ID          |-> IDs[best_index + 1],
                  rotate_test |-> best_index % 4]
        ELSE [correlation |-> correlation,
              best_value  |-> best_value,
              accepted    |-> FALSE,
              best_index  |-> 0,
              ID          |-> 0,
              rotate_test |-> 0]

\* the correlation is worked out once (line 457) and then matched
Match(patch) ==
    CHOOSE m \in {MatchOf(correlation) :
                     correlation \in {corr2_coeff(barcodes, patch)}} : TRUE

-----------------------------------------------------------------------------
(* angle                                                                   *)

\* tan(d degrees) * 10000 for d = 1..89
TanTable ==
    << 175, 349, 524, 699, 875, 1051, 1228, 1405, 1584, 1763, 1944, 2126,
       2309, 2493, 2679, 2867, 3057, 3249, 3443, 3640, 3839, 4040, 4245,
       4452, 4663, 4877, 5095, 5317, 5543, 5774, 6009, 6249, 6494, 6745,
       7002, 7265, 7536, 7813, 8098, 8391, 8693, 9004, 9325, 9657, 10000,
       10355, 10724, 11106, 11504, 11918, 12349, 12799, 13270, 13764, 14281,
       14826, 15399, 16003, 16643, 17321, 18040, 18807, 19626, 20503, 21445,
       22460, 23559, 24751, 26051, 27475, 29042, 30777, 32709, 34874, 37321,
       40108, 43315, 47046, 51446, 56713, 63138, 71154, 81443, 95144, 114301,
       143007, 190811, 286363, 572900 >>

\* whole degrees of atan(y / x) for x > 0, y >= 0, rounded down
AtanFloor(y, x) == Cardinality({d \in 1..89 : TanTable[d] * x <= 10000 * y})

\* the same rounded up; the angle is a whole number only at 0 and 45
AtanCeil(y, x) ==
    IF y = 0 \/ y = x THEN AtanFloor(y, x) ELSE AtanFloor(y, x) + 1

\* np.arctan2(y, x) in degrees, rounded down, in -180..180
arctan2(y, x) ==
    CASE x > 0 /\ y >= 0 -> AtanFloor(y, x)
      [] x > 0 /\ y < 0  -> -AtanCeil(-y, x)
      [] x < 0 /\ y >= 0 -> 180 - AtanCeil(y, -x)
      [] x < 0 /\ y < 0  -> AtanFloor(-y, -x) - 180
      [] x = 0 /\ y > 0  -> 90
      [] x = 0 /\ y < 0  -> -90
      [] OTHER           -> 0

\* a float: a number, or NaN
Num(v) == [nan |-> FALSE, v |-> v]

NaNf == [nan |-> TRUE, v |-> 0]

Returned(v) == [raises |-> "", value |-> v]

Raised(e) == [raises |-> e, value |-> 0]

\* angle(vector, degrees = True).  np.arctan2 is NaN exactly when a
\* component is NaN; the isnan branch then uses v1_u and v2_u, names the
\* function never binds.
angle(vector) ==
    IF vector[1].nan \/ vector[2].nan
    THEN Raised("NameError")
    ELSE Returned(arctan2(vector[2].v, vector[1].v) % 360)

-----------------------------------------------------------------------------
(* The filter chain and the decoding of one contour (lines 399-514)        *)

\* cap.get(CAP_PROP_FRAME_WIDTH), cap.get(CAP_PROP_FRAME_HEIGHT)
frame_width == 320

frame_height == 200

pt1 == <<0, 0>>

pt2 == <<frame_width, frame_height>>

edge_thresh == 1

\* image.shape of the cropped frame: crop(image, pt1, pt2) keeps rows
\* pt1[1]..pt2[1] and columns pt1[0]..pt2[0]
image_shape == <<pt2[2] - pt1[2], pt2[1] - pt1[1]>>

maxx_thresh == image_shape[2] - edge_thresh

maxy_thresh == image_shape[1] - edge_thresh

\* variant: the band includes its endpoints
AreaInClosedBand(area2) == -20 >= area2 /\ area2 >= -4000

\* -10 > area > -2000 on the doubled area
AreaInBand(area2) == -20 > area2 /\ area2 > -4000

\* edge_zero == 0 and edge_maxx == 0 and edge_maxy == 0
ClearOfEdges(cnt) ==
    LET edge_zero == Cardinality({i \in 1..Len(cnt) : cnt[i][1] <= edge_thresh})
                     + Cardinality({i \in 1..Len(cnt) : cnt[i][2] <= edge_thresh})
        edge_maxx == Cardinality({i \in 1..Len(cnt) : cnt[i][1] >= maxx_thresh})
        edge_maxy == Cardinality({i \in 1..Len(cnt) : cnt[i][2] >= maxy_thresh})
    IN  edge_zero = 0 /\ edge_maxx = 0 /\ edge_maxy = 0

\* len(approx) == 4 and -10 > poly_area > -2000 and isContourConvex(approx)
\* and 0 < peri_cnt < 500
IsParallelogram(approx, peri_cnt) ==
    /\ Len(approx) = 4
    /\ AreaInBand(contourArea2(approx))
    /\ isContourConvex(approx)
    /\ 0 < peri_cnt /\ peri_cnt < 50000

\* -0.5 < peri_cnt / area <= 0, with peri_cnt in 1/100 pixel and the area
\* doubled: peri_cnt / area = peri100 / (50 * area2)
RatioInBand(peri100, area2) ==
    IF area2 < 0
    THEN peri100 < -25 * area2 /\ peri100 >= 0
    ELSE peri100 > -25 * area2 /\ peri100 <= 0

\* pts.mean(0), in 1/4 pixel
Centroid4(pts) ==
    <<pts[1][1] + pts[2][1] + pts[3][1] + pts[4][1],
      pts[1][2] + pts[2][2] + pts[3][2] + pts[4][2]>>

\* np.mean([a, b], axis = 0), in 1/4 pixel
Mid4(a, b) == <<2 * (a[1] + b[1]), 2 * (a[2] + b[2])>>

\* variant: rotate_test 1 takes the right edge, as rotate_test 2 does
ForwardEdge_RightFor1(rotate_test, pts) ==
    LET tl == pts[1]
        tr == pts[2]
        br == pts[3]
        bl == pts[4]
    IN  CASE rotate_test = 3 -> Mid4(tl, tr)
          [] rotate_test = 0 -> Mid4(tl, bl)
          [] rotate_test = 1 -> Mid4(br, tr)
          [] rotate_test = 2 -> Mid4(br, tr)

\* the edge midpoint chosen by rotate_test (lines 473-480)
ForwardEdge(rotate_test, pts) ==
    LET tl == pts[1]
        tr == pts[2]
        br == pts[3]
        bl == pts[4]
    IN  CASE rotate_test = 3 -> Mid4(tl, tr)
          [] rotate_test = 0 -> Mid4(tl, bl)
          [] rotate_test = 1 -> Mid4(br, bl)
          [] rotate_test = 2 -> Mid4(br, tr)

NoCand ==
    [stage |-> "none", cnt |-> <<>>, approx |-> <<>>, peri_cnt |-> 0,
     pts |-> <<>>, correlation |-> <<>>, best_index |-> 0]

\* lines 448-514 for one candidate whose corners are ordered and whose patch
\* is correlated
Report(fitted, pts, m, frame_number) ==
    LET best_value  == m.best_value
        decoded     == [fitted EXCEPT !.pts = pts, !.correlation = m.correlation]
    IN
    IF ~m.accepted THEN [cand |-> [decoded EXCEPT !.stage = "threshold"], line |-> <<>>, raises |-> ""]
    ELSE LET best_index  == m.best_index
             ID          == m.ID
             mean        == Centroid4(pts)
             rotate_test == m.rotate_test
             edge0       == ForwardEdge(rotate_test, pts)
             edge        == <<edge0[1], -edge0[2]>>
             centroid    == <<mean[1], -mean[2]>>
             vector      == <<Num(edge[1] - centroid[1]), Num(edge[2] - centroid[2])>>
             vector_angle == angle(vector)
             accepted    == [decoded EXCEPT !.best_index = best_index]
         IN
    IF vector_angle.raises # "" THEN [cand |-> [accepted EXCEPT !.stage = "angle"], line |-> <<>>, raises |-> vector_angle.raises]
    ELSE [cand  |-> [accepted EXCEPT !.stage = "written"],
          line  |-> << [frame_number |-> frame_number,
                        id           |-> ID,
                        id_prob      |-> best_value,
                        x            |-> centroid[1] + 4 * pt1[1],
                        y            |-> centroid[2] + 4 * pt1[2],
                        orientation  |-> vector_angle.value] >>,
          raises |-> ""]

\* What lines 399-514 do with contour c = [cnt, approx, patch]: the stage the
\* contour stops at, the values computed on the way and, when the match is
\* accepted, the data line.
Decode(c, frame_number) ==
    LET cnt      == c.cnt
        area2    == contourArea2(cnt)
        peri_cnt == arcLength100(cnt)
        approx   == c.approx
        base     == [NoCand EXCEPT !.cnt = cnt]
    IN
    IF ~(Len(cnt) >= 4) THEN [cand |-> [base EXCEPT !.stage = "vertices"], line |-> <<>>, raises |-> ""]
    ELSE IF ~AreaInBand(area2) THEN [cand |-> [base EXCEPT !.stage = "area"], line |-> <<>>, raises |-> ""]
    ELSE IF ~ClearOfEdges(cnt) THEN [cand |-> [base EXCEPT !.stage = "edge"], line |-> <<>>, raises |-> ""]
    ELSE LET fitted == [base EXCEPT !.approx = approx, !.peri_cnt = peri_cnt] IN
    IF ~IsParallelogram(approx, peri_cnt) THEN [cand |-> [fitted EXCEPT !.stage = "polygon"], line |-> <<>>, raises |-> ""]
    ELSE IF ~RatioInBand(peri_cnt, area2) THEN [cand |-> [fitted EXCEPT !.stage = "ratio"], line |-> <<>>, raises |-> ""]
    ELSE CHOOSE d \in {Report(rec, pts, m, frame_number) :
                          rec \in {fitted},
                          pts \in {order_points(approx)},
                          m \in {Match(c.patch)}} : TRUE

-----------------------------------------------------------------------------
(* The frames the video source can deliver                                 *)

\* a w x h rectangle traced in the direction cv2.contourArea signs negative
Rect(x, y, w, h) == <<<<x, y>>, <<x, y + h>>, <<x + w, y + h>>, <<x + w, y>>>>

\* a contour whose polygon fit keeps all its vertices
Shape(cnt, patch) == [cnt |-> cnt, approx |-> cnt, patch |-> patch]

\* a contour that cv2.approxPolyDP simplifies to approx
Fitted(cnt, approx, patch) == [cnt |-> cnt, approx |-> approx, patch |-> patch]

Patch42r0  == Ring(<<2, 0, 0, 0>>, TagSide, 2)
Patch42r1  == Ring(<<0, 2, 0, 0>>, TagSide, 2)
Patch42r3  == Ring(<<0, 0, 2, 0>>, TagSide, 2)
Patch7r2   == Ring(<<0, 0, 2, 2>>, TagSide, 2)
PatchFaded == Ring(<<2, 0, 0, 0>>, TagSide, 1)
PatchLow   == Ring(<<0, 0, 2, 2>>, TagSide, 1)
PatchTie   == Ring(<<0, 0, 0, 0>>, TagSide, 1)
PatchTie3  == Ring(<<1, 1, 1, 0>>, TagSide, 2)
PatchDark  == Ring(<<2, 2, 2, 2>>, TagSide, 0)
PatchFlat  == Ring(<<1, 1, 1, 1>>, TagSide, 1)

FrameOf(cs) ==
    [ndim |-> 3, channels |-> 3, dtype |-> "uint8", levels |-> {0, 255},
     contours |-> cs]

\* markers well inside the frame
FrameMarkers ==
    FrameOf(<< Shape(Rect(90, 140, 20, 20), Patch42r0),
               Shape(Rect(150, 100, 20, 20), PatchLow),
               Shape(Rect(200, 50, 20, 20), Patch7r2) >>)

\* markers of other shapes and patches of other kinds
FrameMixed ==
    FrameOf(<< Shape(Rect(30, 30, 12, 16), Patch42r1),
               Shape(<<<<100, 20>>, <<96, 40>>, <<120, 50>>, <<124, 30>>>>, Patch42r3),
               Shape(<<<<60, 50>>, <<50, 60>>, <<60, 70>>, <<70, 60>>>>, PatchFaded),
               Shape(Rect(150, 100, 20, 20), PatchTie),
               Shape(Rect(180, 100, 20, 20), PatchTie3),
               Shape(Rect(210, 100, 20, 20), PatchDark),
               Shape(Rect(240, 100, 20, 20), PatchFlat) >>)

\* markers at and near the four frame boundaries
FrameEdges ==
    FrameOf(<< Shape(Rect(1, 40, 20, 20), Patch42r0),
               Shape(Rect(40, 1, 20, 20), Patch42r0),
               Shape(Rect(2, 2, 20, 20), Patch42r0),
               Shape(Rect(frame_width - 21, 40, 20, 20), Patch7r2),
               Shape(Rect(frame_width - 22, 40, 20, 20), Patch7r2),
               Shape(Rect(frame_width - 23, 70, 20, 20), Patch7r2),
               Shape(Rect(40, frame_height - 21, 20, 20), Patch42r1),
               Shape(Rect(40, frame_height - 22, 20, 20), Patch42r1) >>)

\* no marker: too few vertices, areas at and outside the band, and a
\* contour traced the other way round
FrameAreas ==
    FrameOf(<< Shape(<<<<40, 40>>, <<40, 60>>, <<60, 60>>>>, Patch42r0),
               Shape(Rect(40, 40, 3, 3), Patch42r0),
               Shape(Rect(40, 40, 2, 5), Patch42r0),
               Shape(Rect(40, 40, 40, 50), Patch42r0),
               Shape(Rect(40, 40, 45, 45), Patch42r0),
               Shape(Reverse(Rect(40, 40, 20, 20)), Patch42r0) >>)

\* polygon fits: ratio at and inside its band, a long thin contour, a fit of
\* area 10, a concave fit, a notched square and a pentagon
FramePolygons ==
    FrameOf(<< Shape(Rect(40, 40, 8, 8), Patch42r0),
               Shape(Rect(40, 40, 9, 9), Patch42r0),
               Fitted(Rect(20, 40, 250, 5), <<<<20, 40>>, <<270, 45>>>>, Patch42r0),
               Fitted(<<<<41, 40>>, <<40, 41>>, <<40, 43>>, <<41, 44>>,
                        <<43, 44>>, <<44, 43>>, <<44, 41>>, <<43, 40>>>>,
                      <<<<41, 40>>, <<40, 43>>, <<43, 44>>, <<44, 41>>>>, Patch42r0),
               Shape(<<<<40, 40>>, <<50, 50>>, <<40, 60>>, <<70, 50>>>>, Patch42r0),
               Fitted(<<<<40, 40>>, <<40, 60>>, <<50, 60>>, <<50, 58>>,
                        <<52, 58>>, <<52, 60>>, <<60, 60>>, <<60, 40>>>>,
                      Rect(40, 40, 20, 20), Patch7r2),
               Shape(<<<<50, 40>>, <<40, 50>>, <<44, 62>>, <<56, 62>>, <<60, 50>>>>,
                     Patch42r0) >>)

\* a uniform frame: its thresholded image has one level and no contour
FrameBlank ==
    [ndim |-> 3, channels |-> 3, dtype |-> "uint8", levels |-> {0},
     contours |-> <<>>]

\* a single-channel frame
FrameGray ==
    [ndim |-> 2, channels |-> 1, dtype |-> "uint8", levels |-> {0, 255},
     contours |-> <<>>]

Frames ==
    {FrameMarkers, FrameMixed, FrameEdges, FrameAreas, FramePolygons,
     FrameBlank, FrameGray}

NoImage ==
    [ndim |-> 0, channels |-> 0, dtype |-> "", levels |-> {}, contours |-> <<>>]

\* the assertions of get_grayscale(image, channel = 'green'),
\* get_threshold(gray, block_size = 201, offset = -25) and get_contours(thresh)
get_grayscale_ok(color_image) ==
    /\ color_image.ndim = 3
    /\ color_image.channels = 3
    /\ color_image.dtype = "uint8"

get_threshold_ok(block_size) == block_size % 2 = 1

get_contours_ok(threshold_image) == {0, 255} \ threshold_image.levels = {}

-----------------------------------------------------------------------------
(* run_decoder                                                             *)

MaxReads == 2

Idle == /\ fn = "none"
        /\ arg = <<>>
        /\ res = <<>>

Init ==
    /\ pc = "while"
    /\ opened \in BOOLEAN
    /\ ret = FALSE
    /\ image = NoImage
    /\ pos = 0
    /\ frame_count \in 0..(MaxReads + 1)
    /\ n_tags = 0
    /\ contours = <<>>
    /\ ci = 1
    /\ savefile = <<>>
    /\ out = <<>>
    /\ cand = NoCand
    /\ Idle

\* while cap.isOpened():
LoopTest ==
    /\ pc = "while"
    /\ pc' = IF opened THEN "read" ELSE "cleanup"
    /\ UNCHANGED <<opened, ret, image, pos, frame_count, n_tags,
                   contours, ci, savefile, out, cand, fn, arg, res>>

\* ret, image = cap.read() delivering the next frame
ReadFrame ==
    /\ pc = "read"
    /\ pos < MaxReads
    /\ \E f \in Frames : image' = f
    /\ ret' = TRUE
    /\ pos' = pos + 1
    /\ pc' = "frame"
    /\ UNCHANGED <<opened, frame_count, n_tags, contours, ci, savefile, out,
                   cand, fn, arg, res>>

\* ret, image = cap.read() delivering nothing
ReadNothing ==
    /\ pc = "read"
    /\ ret' = FALSE
    /\ image' = NoImage
    /\ pc' = "elif"
    /\ UNCHANGED <<opened, pos, frame_count, n_tags, contours, ci,
                   savefile, out, cand, fn, arg, res>>

\* variant: the tag count is not reset
StartFrame_KeepsCount ==
    /\ pc = "frame"
    /\ cand' = NoCand
    /\ IF get_grayscale_ok(image) /\ get_threshold_ok(201) /\ get_contours_ok(image)
       THEN /\ contours' = image.contours
            /\ ci' = 1
            /\ pc' = "for"
       ELSE /\ pc' = "raised"
            /\ UNCHANGED <<contours, ci>>
    /\ UNCHANGED <<opened, ret, image, pos, frame_count, n_tags, savefile, out,
                   fn, arg, res>>

\* lines 382-397: n_tags = 0, then crop, get_grayscale, GaussianBlur,
\* get_threshold and get_contours; a failed assertion leaves run_decoder
StartFrame ==
    /\ pc = "frame"
    /\ n_tags' = 0
    /\ cand' = NoCand
    /\ IF get_grayscale_ok(image) /\ get_threshold_ok(201) /\ get_contours_ok(image)
       THEN /\ contours' = image.contours
            /\ ci' = 1
            /\ pc' = "for"
       ELSE /\ pc' = "raised"
            /\ UNCHANGED <<contours, ci>>
    /\ UNCHANGED <<opened, ret, image, pos, frame_count, savefile, out,
                   fn, arg, res>>

\* every contour the source's frames hold
Catalogue ==
    FrameMarkers.contours \o FrameMixed.contours \o FrameEdges.contours
        \o FrameAreas.contours \o FramePolygons.contours

\* the loop body worked out once for every contour and frame number
DecodeTable ==
    Build(LAMBDA k : Build(LAMBDA n : Decode(Catalogue[k], n), MaxReads),
          Len(Catalogue))

\* Decode(c, frame_number), looked up
Decoded(c, frame_number) ==
    DecodeTable[CHOOSE k \in 1..Len(Catalogue) : Catalogue[k] = c][frame_number]

\* one pass of for cnt in contours (lines 399-514)
ProcessContour ==
    /\ pc = "for"
    /\ ci <= Len(contours)
    /\ LET d == Decoded(contours[ci], pos)
       IN  /\ cand' = d.cand
           /\ savefile' = savefile \o d.line
           /\ n_tags' = n_tags + Len(d.line)
           /\ IF d.raises = ""
              THEN /\ ci' = ci + 1
                   /\ pc' = "for"
              ELSE /\ pc' = "raised"
                   /\ UNCHANGED ci
    /\ UNCHANGED <<opened, ret, image, pos, frame_count, contours, out,
                   fn, arg, res>>

\* lines 516-527: the tag count is drawn, the frame is written, and every
\* tenth frame the progress is printed, dividing by the frame count
WriteFrame ==
    /\ pc = "for"
    /\ ci > Len(contours)
    /\ out' = Append(out, [frame_number |-> pos, n_tags |-> n_tags])
    /\ pc' = IF pos % 10 = 0 /\ frame_count = 0 THEN "raised" ELSE "waitKey"
    /\ UNCHANGED <<opened, ret, image, pos, frame_count, n_tags,
                   contours, ci, savefile, cand, fn, arg, res>>

\* elif cap.get(CAP_PROP_POS_FRAMES) == cap.get(CAP_PROP_FRAME_COUNT): break
EndTest ==
    /\ pc = "elif"
    /\ pc' = IF pos = frame_count THEN "cleanup" ELSE "waitKey"
    /\ UNCHANGED <<opened, ret, image, pos, frame_count, n_tags,
                   contours, ci, savefile, out, cand, fn, arg, res>>

\* what cv2.waitKey(1) can return: no key, Esc, another key
Keys == {-1, 27, 113}

\* if cv2.waitKey(1) & 0xFF == 27: break
WaitKey ==
    /\ pc = "waitKey"
    /\ \E key \in Keys : pc' = IF key % 256 = 27 THEN "cleanup" ELSE "while"
    /\ UNCHANGED <<opened, ret, image, pos, frame_count, n_tags,
                   contours, ci, savefile, out, cand, fn, arg, res>>

\* lines 536-544: release, close, return
Cleanup ==
    /\ pc = "cleanup"
    /\ opened' = FALSE
    /\ pc' = "done"
    /\ UNCHANGED <<ret, image, pos, frame_count, n_tags, contours, ci,
                   savefile, out, cand, fn, arg, res>>

Next ==
    \/ LoopTest
    \/ ReadFrame
    \/ ReadNothing
    \/ StartFrame
    \/ ProcessContour
    \/ WriteFrame
    \/ EndTest
    \/ WaitKey
    \/ Cleanup

Spec == Init /\ [][Next]_vars

\* the loop runs whenever it can: the interpreter never stops between
\* statements
FairSpec == Spec /\ WF_vars(Next)

TypeOK ==
    /\ pc \in {"while", "read", "frame", "for", "elif", "waitKey", "cleanup",
               "done", "raised"}
    /\ opened \in BOOLEAN
    /\ ret \in BOOLEAN
    /\ pos \in 0..MaxReads
    /\ n_tags \in 0..Len(savefile)
    /\ ci \in 1..(Len(contours) + 1)
    /\ Len(out) <= pos

-----------------------------------------------------------------------------
(* The functions on their own: an argument is drawn, the function is       *)
(* called once, its result is kept.                                        *)

GridMax == 2

MaxCoord == 3

MaxLevel == 2

GridPoints == (0..GridMax) \X (0..GridMax)

\* four distinct grid points that are the corners of a convex quadrilateral,
\* listed in any order
Quads ==
    {q \in GridPoints \X GridPoints \X GridPoints \X GridPoints :
        /\ Cardinality({q[1], q[2], q[3], q[4]}) = 4
        /\ \/ isContourConvex(q)
           \/ isContourConvex(<<q[1], q[2], q[4], q[3]>>)
           \/ isContourConvex(<<q[1], q[3], q[2], q[4]>>)}

Floats == {Num(v) : v \in (-MaxCoord)..MaxCoord} \cup {NaNf}

Vectors == Floats \X Floats

\* flattened patches: any levels in the tag cells, any level in the ring
Patches ==
    {Ring(cells, TagSide, b) :
        cells \in [1..(TagSide * TagSide) -> 0..MaxLevel], b \in 0..MaxLevel}

CallInit ==
    /\ pc = "call"
    /\ opened = FALSE
    /\ ret = FALSE
    /\ image = NoImage
    /\ pos = 0
    /\ frame_count = 0
    /\ n_tags = 0
    /\ contours = <<>>
    /\ ci = 1
    /\ savefile = <<>>
    /\ out = <<>>
    /\ cand = NoCand
    /\ res = <<>>
    /\ \/ fn = "order_points" /\ arg \in Quads
       \/ fn = "angle" /\ arg \in Vectors
       \/ fn = "match" /\ arg \in Patches

CallOrderPoints ==
    /\ pc = "call" /\ fn = "order_points"
    /\ res' = <<order_points(arg)>>
    /\ pc' = "returned"
    /\ UNCHANGED <<opened, ret, image, pos, frame_count, n_tags, contours, ci,
                   savefile, out, cand, fn, arg>>

CallAngle ==
    /\ pc = "call" /\ fn = "angle"
    /\ res' = <<angle(arg)>>
    /\ pc' = "returned"
    /\ UNCHANGED <<opened, ret, image, pos, frame_count, n_tags, contours, ci,
                   savefile, out, cand, fn, arg>>

CallMatch ==
    /\ pc = "call" /\ fn = "match"
    /\ res' = <<Match(arg)>>
    /\ pc' = "returned"
    /\ UNCHANGED <<opened, ret, image, pos, frame_count, n_tags, contours, ci,
                   savefile, out, cand, fn, arg>>

CallNext ==
    \/ CallOrderPoints
    \/ CallAngle
    \/ CallMatch

CallSpec == CallInit /\ [][CallNext]_vars

Returned_(f) == pc = "returned" /\ fn = f

-----------------------------------------------------------------------------
(* Properties                                                              *)

\* C1: once cap.read() has returned no frame, the loop is left and
\* run_decoder reaches its cleanup, whatever pos and frame_count are.  (A
\* run that an assertion has ended is not held against the loop.)
C1_NoFrameEndsLoop ==
    (pc = "elif") ~> (pc \in {"cleanup", "done", "raised"})

\* C2: no frame makes an error leave run_decoder: the run never ends in a
\* raised exception.
C2_NoFrameAborts == pc # "raised"

\* C3: the x and y of a data line are the mean of the four ordered corners
\* plus pt1 (kept in quarter pixels: their sum plus 4 * pt1), and are not
\* negative.
C3_CentroidIsMean ==
    cand.stage = "written" =>
        LET line == savefile[Len(savefile)]
            q    == cand.pts
        IN  /\ line.x = q[1][1] + q[2][1] + q[3][1] + q[4][1] + 4 * pt1[1]
            /\ line.y = q[1][2] + q[2][2] + q[3][2] + q[4][2] + 4 * pt1[2]
            /\ line.x >= 0
            /\ line.y >= 0

\* some entry correlates with the patch above 4/5
SomeAbove(correlation) ==
    \E j \in 1..Len(correlation) :
        /\ correlation[j][2] > 0
        /\ correlation[j][1] > 0
        /\ 25 * correlation[j][1] * correlation[j][1] > 16 * correlation[j][2]

C5_OrderPointsIdempotent ==
    Returned_("order_points") => order_points(res[1]) = res[1]

\* C6: a contour that gets past the edge test has every vertex more than
\* edge_thresh away from column 0, row 0, the last column and the last row.
C6_SameMarginOnAllSides ==
    cand.stage \in {"polygon", "ratio", "threshold", "written"} =>
        \A i \in 1..Len(cand.cnt) :
            /\ cand.cnt[i][1] > edge_thresh
            /\ cand.cnt[i][2] > edge_thresh
            /\ (frame_width - 1) - cand.cnt[i][1] > edge_thresh
            /\ (frame_height - 1) - cand.cnt[i][2] > edge_thresh

LinesOf(k) == {i \in 1..Len(savefile) : savefile[i].frame_number = k}

LeqCorr(c, d) ==
    LET sc == IF c[1] < 0 THEN -(c[1] * c[1]) ELSE c[1] * c[1]
        sd == IF d[1] < 0 THEN -(d[1] * d[1]) ELSE d[1] * d[1]
    IN  sc * d[2] <= sd * c[2]

\* C8: an accepted match is the entry of maximum correlation with the lowest
\* index; ID, rotation index and confidence are that entry's; a patch equal
\* to a stored barcode returns that barcode's ID with confidence 1.
C8_MatchIsFirstMaximum ==
    (Returned_("match") /\ res[1].accepted) =>
        LET m    == res[1]
            corr == [j \in 1..Len(barcodes) |-> Pearson(barcodes[j], arg)]
            k    == m.best_index + 1
        IN  /\ k \in 1..Len(barcodes)
            /\ \A j \in 1..Len(barcodes) : LeqCorr(corr[j], corr[k])
            /\ \A j \in 1..(k - 1) : ~LeqCorr(corr[k], corr[j])
            /\ m.ID = IDs[k]
            /\ m.rotate_test = m.best_index % 4
            /\ m.best_value = corr[k]
            /\ \A j \in 1..Len(barcodes) :
                   arg = barcodes[j] =>
                       /\ m.ID = IDs[j]
                       /\ m.best_value[1] > 0
                       /\ m.best_value[1] * m.best_value[1] = m.best_value[2]

C8_Witness ==
    /\ Returned_("match")
    /\ res[1].accepted
    /\ \E j \in 1..Len(barcodes) :
           /\ j # res[1].best_index + 1
           /\ res[1].correlation[j] = res[1].best_value

\* C9: angle returns a value for every vector, the value lies in [0, 360),
\* and it is 0 for the zero vector.
C9_AngleAlwaysReturns ==
    Returned_("angle") =>
        /\ res[1].raises = ""
        /\ res[1].value \in 0..359
        /\ (arg = <<Num(0), Num(0)>> => res[1].value = 0)

\* C10: a candidate is rectified and decoded only if its contour has at
\* least 4 vertices and an area strictly inside (-2000, -10), and its
\* simplified polygon has 4 vertices, is convex, has an area strictly inside
\* (-2000, -10), a perimeter strictly inside (0, 500) and a ratio of
\* perimeter to contour area in (-0.5, 0].
C10_RectifiedOnlyIfQuad ==
    cand.stage \in {"threshold", "written"} =>
        LET cnt    == cand.cnt
            approx == cand.approx
            area2  == contourArea2(cnt)
            poly2  == contourArea2(approx)
            peri   == arcLength100(approx)
        IN  /\ Len(cnt) >= 4
            /\ area2 < -20 /\ area2 > -4000
            /\ Len(approx) = 4
            /\ isContourConvex(approx)
            /\ poly2 < -20 /\ poly2 > -4000
            /\ peri > 0 /\ peri < 50000
            /\ peri < -25 * area2 /\ peri >= 0

C10_Witness ==
    /\ cand.stage = "written"
    /\ cand.approx # cand.cnt
    /\ arcLength100(cand.approx) < arcLength100(cand.cnt)


\* the corners, as positions in <<tl, tr, br, bl>>, of the edge each rotation
\* index is said to select: 3 top, 0 left, 1 bottom, 2 right
Sides == [r \in 0..3 |->
             CASE r = 3 -> <<1, 2>>
               [] r = 0 -> <<1, 4>>
               [] r = 1 -> <<3, 4>>
               [] r = 2 -> <<3, 2>>]

\* C11: for an accepted detection the rotation index best_index % 4 is one
\* of 0..3; each of the four indices selects the midpoint of its own edge of
\* the ordered corners (3: tl,tr; 0: tl,bl; 1: br,bl; 2: br,tr), the four
\* edges being four different corner pairs; and the orientation written is
\* the angle from the centroid to the edge of the detection's own index.
C11_EdgeByRotation ==
    cand.stage = "written" =>
        LET pts      == cand.pts
            r        == cand.best_index % 4
            line     == savefile[Len(savefile)]
            mid(q)   == Mid4(pts[Sides[q][1]], pts[Sides[q][2]])
            mean     == Centroid4(pts)
            vector   == <<Num(mid(r)[1] - mean[1]), Num(mean[2] - mid(r)[2])>>
        IN  /\ r \in 0..3
            /\ \A q \in 0..3 : ForwardEdge(q, pts) = mid(q)
            /\ \A q1, q2 \in 0..3 :
                   q1 # q2 => {Sides[q1][1], Sides[q1][2]} # {Sides[q2][1], Sides[q2][2]}
            /\ angle(vector).raises = ""
            /\ line.orientation = angle(vector).value

C11_Witness ==
    /\ cand.stage = "written"
    /\ cand.best_index % 4 = 1
    /\ Len(savefile) > 0

=============================================================================
